---- MODULE Spec2Model ----
(***************************************************************************)
(* Busy-Light: a calendar-driven smart switch.                             *)
(*                                                                         *)
(* Model of src/calendar_busy_light.py:                                    *)
(*   NetworkUtils.retry_with_exponential_backoff   (specification          *)
(*       SpecRetry: one call of the retry executor, attempt by attempt);   *)
(*   TuyaController.flash                          (specification          *)
(*       SpecFlash: one call of flash(times) on a connected controller);   *)
(*   BusyLightService.run / stop, main, the error-flash worker             *)
(*       TuyaController.flash_error and the heartbeat worker               *)
(*       (specification Spec: the whole process, threads interleaved).     *)
(*                                                                         *)
(* Time is counted in units of 1/TicksPerSecond seconds.                   *)
(***************************************************************************)
EXTENDS Integers, Sequences, FiniteSets, TLC

VARIABLES
    retry,      \* the frame of one retry_with_exponential_backoff call
    tuya,       \* TuyaController fields
    switch,     \* the physical switch (state held by the device)
    calendar,   \* GoogleCalendarMonitor fields
    svc,        \* BusyLightService fields
    pc,         \* position of each thread: main, error-flash worker, heartbeat worker
    call,       \* the set_state call in progress of each thread that can issue one
    fl,         \* the frame of TuyaController.flash
    run,        \* locals of BusyLightService.run / startup_sequence
    tick,       \* what the current run-loop tick has done so far (history)
    hist        \* what the process has done so far (history)

vars == <<retry, tuya, switch, calendar, svc, pc, call, fl, run, tick, hist>>

\* everything but the frame of the retry executor
processVars == <<tuya, switch, calendar, svc, pc, call, fl, run, tick, hist>>

\* Python's None and a value that is not None
None == <<>>
Some(x) == <<x>>

----------------------------------------------------------------------------
(* Bounds of the model *)

MaxRetries == 4
TicksPerSecond == 2
MaxInitialDelay == 3
MaxMaxDelay == 8
MaxTimes == 3
MaxEvents == 2
MaxStart == 2

Errors == {"timeout", "refused"}

Min(a, b) == IF a < b THEN a ELSE b

RECURSIVE Pow2(_)
Pow2(k) == IF k = 0 THEN 1 ELSE 2 * Pow2(k - 1)

----------------------------------------------------------------------------
(* NetworkUtils.retry_with_exponential_backoff *)

\* line 75: random.uniform(0, 1), in time units
Jitter == 0 .. TicksPerSecond

\* line 75: delay = min(initial_delay * (2 ** attempt) + random.uniform(0, 1), max_delay)
BackoffDelay_NoClamp(initial_delay, attempt, jitter, max_delay) ==
    initial_delay * Pow2(attempt) + jitter

BackoffDelay(initial_delay, attempt, jitter, max_delay) ==
    Min(initial_delay * Pow2(attempt) + jitter, max_delay)

\* line 72: if attempt == max_retries - 1: raise e
IsLastAttempt_OffByOne(attempt, max_retries) == attempt = max_retries

IsLastAttempt(attempt, max_retries) == attempt = max_retries - 1

RetryIdle ==
    [pc |-> "idle", max_retries |-> 0, initial_delay |-> 1, max_delay |-> 1,
     attempt |-> 0, calls |-> 0, failures |-> 0, last_error |-> "none",
     sleeps |-> <<>>, result |-> "pending", raised |-> "none"]

\* The policies and the call: max_retries, initial_delay > 0, max_delay >= initial_delay.
RetryInit ==
    /\ retry \in { [RetryIdle EXCEPT !.pc = "loop", !.max_retries = m,
                                     !.initial_delay = i, !.max_delay = d] :
                     m \in 0 .. MaxRetries, i \in 1 .. MaxInitialDelay,
                     d \in 1 .. MaxMaxDelay }
    /\ retry.max_delay >= retry.initial_delay

\* line 70: return func()
ReturnResult_KeepLooping(r) == [r EXCEPT !.result = "returned", !.attempt = @ + 1]

ReturnResult(r) == [r EXCEPT !.result = "returned", !.pc = "done"]

\* lines 68-70: one pass of the for loop in which func() returns
RetryAttemptSucceeds ==
    /\ retry.pc = "loop"
    /\ retry.attempt < retry.max_retries
    /\ retry' = ReturnResult([retry EXCEPT !.calls = @ + 1])
    /\ UNCHANGED processVars

\* lines 68-77: one pass of the for loop in which func() raises e
RetryAttemptFails ==
    /\ retry.pc = "loop"
    /\ retry.attempt < retry.max_retries
    /\ \E e \in Errors, jitter \in Jitter :
         IF IsLastAttempt(retry.attempt, retry.max_retries)
         THEN retry' = [retry EXCEPT !.calls = @ + 1, !.failures = @ + 1,
                                     !.last_error = e,
                                     !.result = "raised", !.raised = e, !.pc = "done"]
         ELSE retry' = [retry EXCEPT !.calls = @ + 1, !.failures = @ + 1,
                                     !.last_error = e,
                                     !.sleeps = Append(@,
                                         BackoffDelay(retry.initial_delay, retry.attempt,
                                                      jitter, retry.max_delay)),
                                     !.attempt = @ + 1]
    /\ UNCHANGED processVars

\* line 79: the for loop ran out
RetryLoopExhausted ==
    /\ retry.pc = "loop"
    /\ retry.attempt >= retry.max_retries
    /\ retry' = [retry EXCEPT !.result = "raised", !.raised = "AllRetriesFailed",
                              !.pc = "done"]
    /\ UNCHANGED processVars

----------------------------------------------------------------------------
(* Exceptions at the boundary of the operations *)

\* the classes of the exceptions the device and calendar libraries raise
Raised == {"HttpError", "OSError"}

\* the classes named by the except clauses that enclose the underlying calls of
\* each operation: connect line 151, ensure_connection line 187, set_state line
\* 222, flash line 253, authenticate line 333, is_busy_soon lines 432 and 435,
\* is_currently_busy line 481. flash_error has none: it calls set_state only.
ExceptClauses_HttpErrorOnly ==
    [connect |-> {"Exception"}, ensure_connection |-> {"Exception"},
     set_state |-> {"Exception"}, flash |-> {"Exception"},
     authenticate |-> {"Exception"}, is_busy_soon |-> {"HttpError", "Exception"},
     is_currently_busy |-> {"HttpError"}]

ExceptClauses ==
    [connect |-> {"Exception"}, ensure_connection |-> {"Exception"},
     set_state |-> {"Exception"}, flash |-> {"Exception"},
     authenticate |-> {"Exception"}, is_busy_soon |-> {"HttpError", "Exception"},
     is_currently_busy |-> {"Exception"}]

\* except Exception catches every class raised, except C the class C
Caught_NamedClassOnly(op, e) == e \in ExceptClauses[op]

Caught(op, e) == "Exception" \in ExceptClauses[op] \/ e \in ExceptClauses[op]

\* the exception e, raised by an underlying call of op, leaves op
Escapes(op, e) == ~Caught(op, e)

\* where the caller goes on: at next when op returned, nowhere ("raised") when
\* the exception went through op to the caller
Onward(escaped, next) == IF escaped THEN "raised" ELSE next

----------------------------------------------------------------------------
(* TuyaController: connect, ensure_connection, set_state *)

Threads == {"main", "flash"}

\* __init__, lines 93-97
TuyaInit ==
    [cloud |-> FALSE, last_state |-> None, connection_verified |-> FALSE,
     last_successful_connection |-> None]

\* set_state, line 221: retry_with_exponential_backoff(_set_state, max_retries=3)
SetStateRetries == 3

\* connect, lines 105-123: an attempt of _connect built the client and read the
\* switch status; connection_verified is the first field it assigns
ConnectVerified(tu) == [tu EXCEPT !.cloud = TRUE, !.connection_verified = TRUE]

\* connect, lines 124-125: the status read and the time of the success
ConnectRecorded(tu, status, now) ==
    [tu EXCEPT !.last_state = Some(status), !.last_successful_connection = Some(now)]

\* connect, lines 122-127: the controller once a successful attempt has returned
ConnectSucceeded(tu, sw, now) == ConnectRecorded(ConnectVerified(tu), sw, now)

\* connect, lines 105 and 151-154: every attempt raised; built tells whether
\* tinytuya.Cloud(...) of line 105 returned in one of them
ConnectFailed(tu, built) ==
    [tu EXCEPT !.cloud = @ \/ built, !.connection_verified = FALSE]

\* ensure_connection, lines 159-161; stale: time.time() - last_successful_connection > 300
NeedsReconnect(tu, stale) ==
    \/ ~tu.connection_verified
    \/ tu.last_successful_connection = None
    \/ stale

\* ensure_connection, lines 166-170: the status probe of the existing connection
ProbeSucceeds(tu, probe_ok) == tu.cloud /\ probe_ok

\* a call frame of a thread: the argument of set_state, where its caller goes
\* on, the value returned; who called connect and the status _connect read;
\* what ensure_connection returned to set_state; the failed attempts of the write
NoCall ==
    [state |-> FALSE, ret |-> "none", result |-> FALSE, conn |-> "none",
     status |-> FALSE, ensured |-> "none", attempt |-> 0]

CallSetState(t, state, ret) ==
    /\ pc' = [pc EXCEPT ![t] = "ss_ensure"]
    /\ call' = [call EXCEPT ![t] = [NoCall EXCEPT !.state = state, !.ret = ret]]

CallConnect(t, conn) ==
    /\ pc' = [pc EXCEPT ![t] = "connect"]
    /\ call' = [call EXCEPT ![t] = [NoCall EXCEPT !.conn = conn]]

\* set_state, lines 194-196: if not self.ensure_connection(): return False
AfterEnsure_WritesAnyway(ok, ret) == "ss_write"

AfterEnsure(ok, ret) == IF ok THEN "ss_write" ELSE ret

\* where connect() returns to: ensure_connection inside set_state (lines
\* 164-189), startup_sequence (lines 535-537), the run loop (lines 706-707)
ConnectReturnsTo_SkipsAuthenticate(c, ok) ==
    CASE c.conn = "set_state" -> AfterEnsure(ok, c.ret)
      [] c.conn = "startup" -> IF ok THEN "startup_flash" ELSE "startup_failed"
      [] c.conn = "reconnect" -> "reconnect_calendar"

ConnectReturnsTo_FailedReconnectEndsTick(c, ok) ==
    CASE c.conn = "set_state" -> AfterEnsure(ok, c.ret)
      [] c.conn = "startup" -> IF ok THEN "authenticate" ELSE "startup_failed"
      [] c.conn = "reconnect" -> IF ok THEN "reconnect_calendar" ELSE "tick_sleep"

ConnectReturnsTo(c, ok) ==
    CASE c.conn = "set_state" -> AfterEnsure(ok, c.ret)
      [] c.conn = "startup" -> IF ok THEN "authenticate" ELSE "startup_failed"
      [] c.conn = "reconnect" -> "reconnect_calendar"

\* the frame and the history once connect() has returned ok
ConnectReturn(t, ok, escaped) ==
    /\ pc' = [pc EXCEPT ![t] = Onward(escaped, ConnectReturnsTo(call[t], ok))]
    /\ call' = [call EXCEPT ![t].status = FALSE,
                           ![t].ensured = IF call[t].conn # "set_state" THEN "none"
                                          ELSE IF ok THEN "ok" ELSE "failed"]
    /\ hist' = [hist EXCEPT !.startup =
                                IF call[t].conn = "startup" /\ ~ok THEN "failed" ELSE @,
                            !.phases =
                                IF call[t].conn = "startup" /\ ok
                                THEN Append(@, "connect") ELSE @]
    /\ tick' = [tick EXCEPT !.reconnects =
                   IF call[t].conn = "reconnect"
                   THEN Append(@, [op |-> "connect", ok |-> ok]) ELSE @]

\* ensure_connection, lines 171-172: a successful probe records its time
Probed_NoRefresh(tu, now) == tu

Probed(tu, now) == [tu EXCEPT !.last_successful_connection = Some(now)]

\* ensure_connection, lines 163-164: return self.connect()
EnsureReconnects(t) ==
    /\ tuya' = tuya
    /\ pc' = [pc EXCEPT ![t] = "connect"]
    /\ call' = [call EXCEPT ![t].conn = "set_state"]

\* ensure_connection, lines 166-189: probe the device status; return True when
\* the probe succeeds, self.connect() when it fails or raises
EnsureProbes(t) ==
    \E probe_ok \in BOOLEAN, e \in Raised :
         IF ProbeSucceeds(tuya, probe_ok)
         THEN /\ tuya' = Probed(tuya, hist.now)
              /\ pc' = [pc EXCEPT ![t] = AfterEnsure(TRUE, call[t].ret)]
              /\ call' = [call EXCEPT ![t].ensured = "ok"]
         ELSE /\ tuya' = tuya
              /\ pc' = [pc EXCEPT ![t] = Onward(Escapes("ensure_connection", e), "connect")]
              /\ call' = [call EXCEPT ![t].conn = "set_state"]

\* set_state line 194 and ensure_connection, lines 159-189: reconnect when
\* unverified or stale, otherwise probe the device status and reconnect when the
\* probe fails
SetStateEnsure(t) ==
    /\ pc[t] = "ss_ensure"
    /\ \E stale \in BOOLEAN :
         IF NeedsReconnect(tuya, stale) THEN EnsureReconnects(t) ELSE EnsureProbes(t)
    /\ UNCHANGED <<retry, switch, calendar, svc, fl, run, tick, hist>>

\* connect, lines 100-123 and 150-154: the attempts of _connect under
\* retry_with_exponential_backoff(max_retries=3), up to the first assignment of
\* a successful attempt, or to the return of False when every attempt raised
ConnectAttempts(t) ==
    /\ pc[t] = "connect"
    /\ \E ok, built \in BOOLEAN, e \in Raised :
         IF ok
         THEN /\ tuya' = ConnectVerified(tuya)
              /\ pc' = [pc EXCEPT ![t] = "connect_mark"]
              /\ call' = [call EXCEPT ![t].status = switch]
              /\ UNCHANGED <<hist, tick>>
         ELSE /\ tuya' = ConnectFailed(tuya, built)
              /\ ConnectReturn(t, FALSE, Escapes("connect", e))
    /\ UNCHANGED <<retry, switch, calendar, svc, fl, run>>

\* connect, lines 124-127 and 150: the successful attempt records the status and
\* the time, and connect returns True
ConnectMark(t) ==
    /\ pc[t] = "connect_mark"
    /\ tuya' = ConnectRecorded(tuya, call[t].status, hist.now)
    /\ ConnectReturn(t, TRUE, FALSE)
    /\ UNCHANGED <<retry, switch, calendar, svc, fl, run>>

\* set_state, lines 222-226: the write failed after its retries
WriteFailed_KeepsVerified(tu) == tu

WriteFailed(tu) == [tu EXCEPT !.connection_verified = FALSE]

\* set_state, lines 198-226: one attempt of _set_state under
\* retry_with_exponential_backoff(max_retries=3); accepted: the device accepted
\* the command
SetStateWrite(t) ==
    /\ pc[t] = "ss_write"
    /\ \E accepted \in BOOLEAN, e \in Raised :
         IF accepted /\ tuya.cloud
         THEN /\ switch' = call[t].state
              /\ tuya' = [tuya EXCEPT !.last_state = Some(call[t].state)]
              /\ call' = [call EXCEPT ![t].result = TRUE]
              /\ pc' = [pc EXCEPT ![t] = call[t].ret]
         ELSE IF IsLastAttempt(call[t].attempt, SetStateRetries)
              THEN /\ switch' = switch
                   /\ tuya' = WriteFailed(tuya)
                   /\ call' = [call EXCEPT ![t].result = FALSE, ![t].attempt = @ + 1]
                   /\ pc' = [pc EXCEPT ![t] = Onward(Escapes("set_state", e), call[t].ret)]
              ELSE /\ switch' = switch
                   /\ tuya' = tuya
                   /\ call' = [call EXCEPT ![t].attempt = @ + 1]
                   /\ pc' = pc
    /\ UNCHANGED <<retry, calendar, svc, fl, run, tick, hist>>

\* the thread is inside set_state, its ensure_connection and connect included
InSetState(t) ==
    \/ pc[t] \in {"ss_ensure", "ss_write"}
    \/ pc[t] \in {"connect", "connect_mark"} /\ call[t].conn = "set_state"

----------------------------------------------------------------------------
(* TuyaController.flash, run by the main thread *)

\* startup_sequence, line 546: self.tuya.flash(times=3, duration=1)
StartupFlashTimes == 3

FlashIdle ==
    [times |-> 0, i |-> 0, original_state |-> None, calls |-> <<>>,
     result |-> FALSE, ret |-> "none"]

\* line 249: if original_state is not None
FlashRestores_OnlyIfDiffers(original_state) ==
    original_state # None /\ original_state # Some(FALSE)

FlashRestores(original_state) == original_state # None

\* line 250-252: the value flash returns after the restoring call returned ok
FlashRestoreResult(ok) == TRUE

\* the set_state call that has just returned to flash
Returned == [state |-> call["main"].state, ok |-> call["main"].result]

\* lines 230-234
FlashBegin ==
    /\ pc["main"] = "flash"
    /\ IF ~tuya.cloud
       THEN /\ fl' = [fl EXCEPT !.result = FALSE]
            /\ pc' = [pc EXCEPT !["main"] = fl.ret]
       ELSE /\ fl' = [fl EXCEPT !.original_state = tuya.last_state, !.i = 0,
                                !.calls = <<>>, !.result = FALSE]
            /\ pc' = [pc EXCEPT !["main"] = "fl_loop"]
    /\ UNCHANGED <<retry, tuya, switch, calendar, svc, call, run, tick, hist>>

\* lines 237-239: for i in range(times): set_state(True)
FlashLoop ==
    /\ pc["main"] = "fl_loop"
    /\ IF fl.i < fl.times
       THEN CallSetState("main", TRUE, "fl_on_ret")
       ELSE /\ pc' = [pc EXCEPT !["main"] = "fl_restore"]
            /\ call' = call
    /\ UNCHANGED <<retry, tuya, switch, calendar, svc, fl, run, tick, hist>>

\* lines 239-244: set_state(True) returned; sleep; set_state(False)
FlashOnReturned ==
    /\ pc["main"] = "fl_on_ret"
    /\ IF ~call["main"].result
       THEN /\ fl' = [fl EXCEPT !.calls = Append(@, Returned), !.result = FALSE]
            /\ pc' = [pc EXCEPT !["main"] = fl.ret]
            /\ call' = call
       ELSE /\ fl' = [fl EXCEPT !.calls = Append(@, Returned)]
            /\ CallSetState("main", FALSE, "fl_off_ret")
    /\ UNCHANGED <<retry, tuya, switch, calendar, svc, run, tick, hist>>

\* lines 244-246: set_state(False) returned; sleep; next pass
FlashOffReturned ==
    /\ pc["main"] = "fl_off_ret"
    /\ IF ~call["main"].result
       THEN /\ fl' = [fl EXCEPT !.calls = Append(@, Returned), !.result = FALSE]
            /\ pc' = [pc EXCEPT !["main"] = fl.ret]
       ELSE /\ fl' = [fl EXCEPT !.calls = Append(@, Returned), !.i = @ + 1]
            /\ pc' = [pc EXCEPT !["main"] = "fl_loop"]
    /\ UNCHANGED <<retry, tuya, switch, calendar, svc, call, run, tick, hist>>

\* lines 248-252: restore the original state
FlashRestore ==
    /\ pc["main"] = "fl_restore"
    /\ IF FlashRestores(fl.original_state)
       THEN /\ CallSetState("main", fl.original_state[1], "fl_restore_ret")
            /\ fl' = fl
       ELSE /\ fl' = [fl EXCEPT !.result = TRUE]
            /\ pc' = [pc EXCEPT !["main"] = fl.ret]
            /\ call' = call
    /\ UNCHANGED <<retry, tuya, switch, calendar, svc, run, tick, hist>>

\* lines 250-252: the restoring set_state returned; return True
FlashRestoreReturned ==
    /\ pc["main"] = "fl_restore_ret"
    /\ fl' = [fl EXCEPT !.calls = Append(@, Returned),
                        !.result = FlashRestoreResult(call["main"].result)]
    /\ pc' = [pc EXCEPT !["main"] = fl.ret]
    /\ UNCHANGED <<retry, tuya, switch, calendar, svc, call, run, tick, hist>>

FlashSteps ==
    \/ FlashBegin
    \/ FlashLoop
    \/ FlashOnReturned
    \/ FlashOffReturned
    \/ FlashRestore
    \/ FlashRestoreReturned

----------------------------------------------------------------------------
(* The state after construction *)

\* GoogleCalendarMonitor.__init__, lines 277-280; events: the items the calendar
\* holds for the window of the next query (left empty where the answer of a
\* query is a free choice)
CalendarInit == [service |-> FALSE, last_successful_auth |-> None, events |-> <<>>]

\* BusyLightService.__init__, lines 518-528
SvcInit ==
    [is_busy |-> FALSE, running |-> TRUE,
     error_flash_thread |-> FALSE, error_stop_event |-> FALSE,
     heartbeat_thread |-> FALSE, heartbeat_stop_event |-> FALSE]

\* the locals of startup_sequence (lines 551-555) and of a tick of run (lines
\* 717-721); previous_busy_state and previous_event_name, read by the log lines
\* 725 and 731 only, are left out
\* requests, auth_failed: the events().list() requests issued, and whether
\* ensure_authenticated returned False, since the last decision (history)
\* queried: the queries called in this cycle, in the order of the calls (history)
RunInit ==
    [busy_soon |-> FALSE, event_soon |-> None,
     currently_busy |-> FALSE, current_event |-> None,
     should_be_on |-> FALSE, current_event_name |-> None,
     requests |-> 0, auth_failed |-> FALSE, queried |-> <<>>]

\* the locals and the history after a query returned q
AfterBusySoon(r, q) ==
    [r EXCEPT !.busy_soon = q.result.busy, !.event_soon = q.result.event,
              !.queried = Append(@, "is_busy_soon"),
              !.requests = @ + (IF q.requested THEN 1 ELSE 0),
              !.auth_failed = @ \/ ~q.authenticated]

AfterCurrentlyBusy(r, q) ==
    [r EXCEPT !.currently_busy = q.result.busy, !.current_event = q.result.event,
              !.queried = Append(@, "is_currently_busy"),
              !.requests = @ + (IF q.requested THEN 1 ELSE 0),
              !.auth_failed = @ \/ ~q.authenticated]

\* recovered: the connectivity probe of the tick failed and wait_for_network
\* succeeded; reconnects: the reconnecting calls of lines 706-709 and what they
\* returned (both kept up to the first query of the tick)
TickInit ==
    [busy_before |-> FALSE, prev_desired |-> None, decided |-> FALSE, writes |-> 0,
     query_failed |-> FALSE, write_failed |-> FALSE,
     recovered |-> FALSE, reconnects |-> <<>>]

\* now: the clock, in seconds; it stands still where elapsed time is a free choice
\* phases: the steps of startup_sequence and of the start of run taken so far
\* untracked: the worker threads that are alive and that the thread attribute
\* of the service no longer refers to
HistInit ==
    [startup |-> "pending", interrupted |-> FALSE, last_desired |-> None, now |-> 0,
     phases |-> <<>>, untracked |-> [flash |-> 0, heartbeat |-> 0]]

PcInit == [main |-> "start", flash |-> "none", heartbeat |-> "none"]

CallInit == [t \in Threads |-> NoCall]

----------------------------------------------------------------------------
(* SpecRetry: one call of retry_with_exponential_backoff *)

ProcessIdle ==
    /\ tuya = TuyaInit
    /\ switch = FALSE
    /\ calendar = CalendarInit
    /\ svc = SvcInit
    /\ pc = [PcInit EXCEPT !["main"] = "idle"]
    /\ call = CallInit
    /\ fl = FlashIdle
    /\ run = RunInit
    /\ tick = TickInit
    /\ hist = HistInit

InitRetry == RetryInit /\ ProcessIdle

NextRetry ==
    \/ RetryAttemptSucceeds
    \/ RetryAttemptFails
    \/ RetryLoopExhausted

SpecRetry == InitRetry /\ [][NextRetry]_vars

----------------------------------------------------------------------------
(* SpecFlash: one call of flash(times) on a controller that connect() has connected *)

InitFlash ==
    /\ retry = RetryIdle
    /\ switch \in BOOLEAN
    /\ tuya = ConnectSucceeded(TuyaInit, switch, 0)
    /\ calendar = CalendarInit
    /\ svc = SvcInit
    /\ pc = [PcInit EXCEPT !["main"] = "flash"]
    /\ call = CallInit
    /\ fl \in { [FlashIdle EXCEPT !.times = n, !.ret = "fl_done"] : n \in 1 .. MaxTimes }
    /\ run = RunInit
    /\ tick = TickInit
    /\ hist = HistInit

NextFlash ==
    \/ FlashSteps
    \/ SetStateEnsure("main")
    \/ ConnectAttempts("main")
    \/ ConnectMark("main")
    \/ SetStateWrite("main")

SpecFlash == InitFlash /\ [][NextFlash]_vars

----------------------------------------------------------------------------
(* GoogleCalendarMonitor: authenticate, ensure_authenticated, the two queries *)

Titles == {"Standup", "Lunch"}

\* an event's transparency marker; "absent": the event carries none
Transparencies == {"opaque", "transparent", "absent"}

\* utcnow() of lines 405 and 446: the clock fields of the present UTC time, in hours
Now == 0

\* the instants (UTC, relative to now) at which an event starts and ends: under
\* way, upcoming
Windows == {<<-1, 1>>, <<1, 2>>}

\* the UTC offsets, in hours, of the dateTime strings the calendar returns
Offsets == {0, 2}

\* an event as the API returns it: start and end are the clock fields of its
\* dateTime strings, offset is their UTC offset
Events ==
    { [summary |-> s, transparency |-> t, start |-> w[1] + o, end |-> w[2] + o,
       offset |-> o] :
        s \in Titles, t \in Transparencies, w \in Windows, o \in Offsets }

\* the event lists the calendar may return
EventLists == UNION { [1 .. n -> Events] : n \in 0 .. MaxEvents }

\* lines 420-421, 471-472: event.get('transparency', 'opaque') == 'opaque'
IsOpaque(event) == event.transparency \in {"opaque", "absent"}

\* the instant of an aware datetime: its clock fields less its UTC offset
\* (what Python compares two aware datetimes by)
Instant(clock, offset) == clock - offset

\* lines 464-466: datetime.fromisoformat of the event's start and end
StartDt(event) == Instant(event.start, event.offset)

EndDt(event) == Instant(event.end, event.offset)

\* line 467: now_dt = now.replace(tzinfo=start_dt.tzinfo): the clock fields of
\* utcnow() under the event's offset
NowDt(event) == Instant(Now, event.offset)

\* line 470: if start_dt <= now_dt <= end_dt
InMeeting(event) == StartDt(event) <= NowDt(event) /\ NowDt(event) <= EndDt(event)

\* lines 418-428: the first opaque event of the list
RECURSIVE CheckBusySoon(_)
CheckBusySoon(events) ==
    IF events = <<>> THEN [busy |-> FALSE, event |-> None]
    ELSE IF IsOpaque(Head(events))
         THEN [busy |-> TRUE, event |-> Some(Head(events).summary)]
         ELSE CheckBusySoon(Tail(events))

\* lines 460-477: the first event of the list that passes the test of line 470
\* and is opaque
RECURSIVE CheckCurrentlyBusy(_)
CheckCurrentlyBusy(events) ==
    IF events = <<>> THEN [busy |-> FALSE, event |-> None]
    ELSE IF InMeeting(Head(events)) /\ IsOpaque(Head(events))
         THEN [busy |-> TRUE, event |-> Some(Head(events).summary)]
         ELSE CheckCurrentlyBusy(Tail(events))

BusySoonAnswers == { CheckBusySoon(events) : events \in EventLists }

CurrentlyBusyAnswers == { CheckCurrentlyBusy(events) : events \in EventLists }

\* authenticate, lines 282-335
Authenticate(cal, ok, now) ==
    IF ok THEN <<[cal EXCEPT !.service = TRUE, !.last_successful_auth = Some(now)], TRUE>>
    ELSE <<cal, FALSE>>

\* ensure_authenticated, lines 339-341; stale: time.time() - last_successful_auth > 1800
NeedsReauthentication(cal, stale) ==
    \/ ~cal.service
    \/ cal.last_successful_auth = None
    \/ stale

\* ensure_authenticated, lines 337-352; expired: self.credentials.expired
EnsureAuthenticated(cal, stale, expired, ok, now) ==
    IF NeedsReauthentication(cal, stale) THEN Authenticate(cal, ok, now)
    ELSE IF expired THEN Authenticate(cal, ok, now)
    ELSE <<cal, TRUE>>

\* is_busy_soon lines 400-401, 430-437; is_currently_busy lines 444-445, 479-483
QueryResult(authenticated, query_ok, answer) ==
    IF ~authenticated THEN [busy |-> FALSE, event |-> Some("Authentication failed")]
    ELSE IF ~query_ok THEN [busy |-> FALSE, event |-> Some("Error")]
    ELSE answer

\* the outcomes of one query op: the calendar monitor after it, the value it
\* returns, whether it failed, whether ensure_authenticated returned True,
\* whether the events().list() request of lines 409-415 / 449-454 was issued,
\* and whether an exception left op
Query(op, cal, answers) ==
    { [calendar |-> a[1],
       result |-> QueryResult(a[2], query_ok, answer),
       failed |-> (~a[2] \/ ~query_ok),
       authenticated |-> a[2],
       requested |-> a[2],
       escaped |-> \/ ~a[2] /\ Escapes("authenticate", e)
                   \/ a[2] /\ ~query_ok /\ Escapes(op, e)] :
      a \in { EnsureAuthenticated(cal, stale, expired, ok, hist.now) :
                 stale \in BOOLEAN, expired \in BOOLEAN, ok \in BOOLEAN },
      query_ok \in BOOLEAN, e \in Raised, answer \in answers }

\* Python's  x or y  on two optional strings (lines 555, 721)
Or(x, y) == IF x # None THEN x ELSE y

----------------------------------------------------------------------------
(* SpecHealth: the staleness tests of ensure_connection and of                *)
(* ensure_authenticated against a clock that counts seconds. In Spec the      *)
(* clock stands still and the outcome of the two tests is a free choice.      *)

\* ensure_connection, line 161
DeviceStaleAfter == 300

\* ensure_authenticated, line 341
CalendarStaleAfter == 1800

\* lines 161 and 341: time.time() - last > threshold, reached only when last is set
IsStale(now, last, threshold) == IF last = None THEN FALSE ELSE now - last[1] > threshold

\* the seconds the clock may advance by in one step
Elapses == {1, 10, 100}

\* the clock runs a little past the threshold of the port under test
Horizon ==
    MaxStart + 1 + (IF pc["main"] = "device_health" THEN DeviceStaleAfter
                    ELSE CalendarStaleAfter)

InitHealth ==
    /\ retry = RetryIdle
    /\ tuya = TuyaInit
    /\ switch \in BOOLEAN
    /\ calendar = CalendarInit
    /\ svc = SvcInit
    /\ pc \in { [PcInit EXCEPT !["main"] = p] : p \in {"device_health", "calendar_health"} }
    /\ call = [CallInit EXCEPT !["main"].ret = "returned"]
    /\ fl = FlashIdle
    /\ run = RunInit
    /\ tick = TickInit
    /\ hist = HistInit

\* time passes
HealthElapse ==
    /\ pc["main"] \in {"device_health", "calendar_health"}
    /\ \E d \in Elapses :
         /\ hist.now + d <= Horizon
         /\ hist' = [hist EXCEPT !.now = @ + d]
    /\ UNCHANGED <<retry, tuya, switch, calendar, svc, pc, call, fl, run, tick>>

\* connect() succeeds now (lines 122-127)
HealthConnect ==
    /\ pc["main"] = "device_health"
    /\ hist.now <= MaxStart
    /\ tuya' = ConnectSucceeded(tuya, switch, hist.now)
    /\ UNCHANGED <<retry, switch, calendar, svc, pc, call, fl, run, tick, hist>>

\* authenticate() succeeds now (lines 325-329)
HealthAuthenticate ==
    /\ pc["main"] = "calendar_health"
    /\ hist.now <= MaxStart
    /\ calendar' = Authenticate(calendar, TRUE, hist.now)[1]
    /\ UNCHANGED <<retry, tuya, switch, svc, pc, call, fl, run, tick, hist>>

\* ensure_connection, lines 159-166: reconnect (line 164), or go on to the probe
HealthEnsureConnection ==
    /\ pc["main"] = "device_health"
    /\ IF NeedsReconnect(tuya, IsStale(hist.now, tuya.last_successful_connection,
                                       DeviceStaleAfter))
       THEN EnsureReconnects("main")
       ELSE /\ pc' = [pc EXCEPT !["main"] = "probe"]
            /\ UNCHANGED <<tuya, call>>
    /\ UNCHANGED <<retry, switch, calendar, svc, fl, run, tick, hist>>

\* ensure_connection, lines 166-189: the probe of a connection found fresh
HealthProbe ==
    /\ pc["main"] = "probe"
    /\ EnsureProbes("main")
    /\ UNCHANGED <<retry, switch, calendar, svc, fl, run, tick, hist>>

\* ensure_authenticated, lines 339-352: re-authenticate (line 344), or go on to
\* the test of the credentials' expiry and from there to the query
HealthEnsureAuthenticated ==
    /\ pc["main"] = "calendar_health"
    /\ pc' = [pc EXCEPT !["main"] =
                 IF NeedsReauthentication(calendar,
                        IsStale(hist.now, calendar.last_successful_auth, CalendarStaleAfter))
                 THEN "reauthenticate" ELSE "credentials"]
    /\ UNCHANGED <<retry, tuya, switch, calendar, svc, call, fl, run, tick, hist>>

NextHealth ==
    \/ HealthElapse
    \/ HealthConnect
    \/ HealthAuthenticate
    \/ HealthEnsureConnection
    \/ HealthProbe
    \/ ConnectAttempts("main")
    \/ ConnectMark("main")
    \/ HealthEnsureAuthenticated

SpecHealth == InitHealth /\ [][NextHealth]_vars

----------------------------------------------------------------------------
(* SpecCalendar: one call of is_busy_soon or of is_currently_busy on a         *)
(* calendar whose events are given                                            *)

InitCalendar ==
    /\ retry = RetryIdle
    /\ tuya = TuyaInit
    /\ switch = FALSE
    /\ calendar \in { [c EXCEPT !.events = events] :
                        c \in {CalendarInit, Authenticate(CalendarInit, TRUE, 0)[1]},
                        events \in EventLists }
    /\ svc = SvcInit
    /\ pc = [PcInit EXCEPT !["main"] = "calendar"]
    /\ call = CallInit
    /\ fl = FlashIdle
    /\ run = RunInit
    /\ tick = TickInit
    /\ hist = HistInit

\* is_busy_soon, lines 395-437
CalendarBusySoon ==
    /\ pc["main"] = "calendar"
    /\ \E q \in Query("is_busy_soon", calendar, {CheckBusySoon(calendar.events)}) :
         /\ calendar' = q.calendar
         /\ run' = AfterBusySoon(run, q)
         /\ tick' = [tick EXCEPT !.query_failed = q.failed]
         /\ pc' = [pc EXCEPT !["main"] = Onward(q.escaped, "soon_done")]
    /\ UNCHANGED <<retry, tuya, switch, svc, call, fl, hist>>

\* is_currently_busy, lines 439-483
CalendarCurrentlyBusy ==
    /\ pc["main"] = "calendar"
    /\ \E q \in Query("is_currently_busy", calendar, {CheckCurrentlyBusy(calendar.events)}) :
         /\ calendar' = q.calendar
         /\ run' = AfterCurrentlyBusy(run, q)
         /\ tick' = [tick EXCEPT !.query_failed = q.failed]
         /\ pc' = [pc EXCEPT !["main"] = Onward(q.escaped, "current_done")]
    /\ UNCHANGED <<retry, tuya, switch, svc, call, fl, hist>>

NextCalendar ==
    \/ CalendarBusySoon
    \/ CalendarCurrentlyBusy

SpecCalendar == InitCalendar /\ [][NextCalendar]_vars

----------------------------------------------------------------------------
(* BusyLightService: the error-flash and heartbeat workers *)

Alive(t) == pc[t] \notin {"none", "dead"}

\* lines 616 and 599: the thread attribute is set and its thread is alive
AlreadyStarted_UnlessCancelled(thread, t) ==
    /\ thread
    /\ Alive(t)
    /\ ~(IF t = "flash" THEN svc.error_stop_event ELSE svc.heartbeat_stop_event)

AlreadyStarted(thread, t) == thread /\ Alive(t)

\* lines 620 and 603: the thread attribute is bound to the new thread; a thread
\* it referred to that is still alive runs on, unreferenced
Rebound(h, t) == [h EXCEPT !.untracked[t] = @ + (IF Alive(t) THEN 1 ELSE 0)]

\* start_error_flash, lines 614-624; the main thread goes on at next
StartErrorFlash(next) ==
    IF AlreadyStarted(svc.error_flash_thread, "flash")
    THEN /\ svc' = svc
         /\ call' = call
         /\ pc' = [pc EXCEPT !["main"] = next]
         /\ hist' = hist
    ELSE /\ svc' = [svc EXCEPT !.error_stop_event = FALSE, !.error_flash_thread = TRUE]
         /\ call' = [call EXCEPT !["flash"] = NoCall]
         /\ pc' = [pc EXCEPT !["main"] = next, !["flash"] = "check"]
         /\ hist' = Rebound(hist, "flash")

\* start_heartbeat_monitor, lines 599-604; the main thread goes on at next, h is
\* the history up to the call
StartHeartbeatMonitor(next, h) ==
    IF AlreadyStarted(svc.heartbeat_thread, "heartbeat")
    THEN /\ svc' = svc
         /\ pc' = [pc EXCEPT !["main"] = next]
         /\ hist' = h
    ELSE /\ svc' = [svc EXCEPT !.heartbeat_stop_event = FALSE, !.heartbeat_thread = TRUE]
         /\ pc' = [pc EXCEPT !["main"] = next, !["heartbeat"] = "check"]
         /\ hist' = Rebound(h, "heartbeat")

\* stop_error_flash, lines 628-629: raise the signal of an alive worker
StopErrorFlashSignal_NotRaised(s) == s

StopErrorFlashSignal(s) ==
    IF s.error_flash_thread /\ Alive("flash")
    THEN [s EXCEPT !.error_stop_event = TRUE]
    ELSE s

\* join(timeout=2), lines 611 and 630: returns when the worker has terminated, or
\* on the timeout, which a worker blocked in a device call can outlast
JoinReturns(t) == ~Alive(t) \/ (t \in Threads /\ InSetState(t))

\* flash_error, lines 262 and 265: if stop_event.wait(0.3): break
WaitBreaks_Ignored(stop_event) == FALSE

WaitBreaks(stop_event) == stop_event

\* flash_error, lines 260-261. The test of the signal and the call it guards are
\* one step: a signal raised between the two has the effect of one raised just
\* after the call began.
FlashErrorCheck ==
    /\ pc["flash"] = "check"
    /\ IF svc.error_stop_event
       THEN /\ pc' = [pc EXCEPT !["flash"] = "dead"]
            /\ call' = call
       ELSE CallSetState("flash", TRUE, "wait_on")
    /\ UNCHANGED <<retry, tuya, switch, calendar, svc, fl, run, tick, hist>>

\* flash_error, lines 262-264
FlashErrorWaitOn ==
    /\ pc["flash"] = "wait_on"
    /\ IF WaitBreaks(svc.error_stop_event)
       THEN /\ pc' = [pc EXCEPT !["flash"] = "dead"]
            /\ call' = call
       ELSE CallSetState("flash", FALSE, "wait_off")
    /\ UNCHANGED <<retry, tuya, switch, calendar, svc, fl, run, tick, hist>>

\* flash_error, lines 265-266
FlashErrorWaitOff ==
    /\ pc["flash"] = "wait_off"
    /\ pc' = [pc EXCEPT !["flash"] = IF WaitBreaks(svc.error_stop_event)
                                     THEN "dead" ELSE "check"]
    /\ UNCHANGED <<retry, tuya, switch, calendar, svc, call, fl, run, tick, hist>>

\* update_heartbeat, lines 581-586, and heartbeat_worker, line 594: the write
\* of the liveness record succeeded or raised; either way the worker waits
AfterBeat_FailedWriteEnds(written) == IF written THEN "wait" ELSE "dead"

AfterBeat(written) == IF written THEN "wait" ELSE "wait_unwritten"

HeartbeatWaits == {"wait", "wait_unwritten"}

\* heartbeat_worker, lines 591-593, and update_heartbeat, lines 579-586 (of the
\* liveness record the state keeps whether the last write succeeded, in the
\* position of the worker)
HeartbeatBeat ==
    /\ pc["heartbeat"] = "check"
    /\ \E written \in BOOLEAN :
         pc' = [pc EXCEPT !["heartbeat"] =
                   IF svc.heartbeat_stop_event THEN "dead" ELSE AfterBeat(written)]
    /\ UNCHANGED <<retry, tuya, switch, calendar, svc, call, fl, run, tick, hist>>

\* heartbeat_worker, lines 594-595
HeartbeatWait ==
    /\ pc["heartbeat"] \in HeartbeatWaits
    /\ pc' = [pc EXCEPT !["heartbeat"] = IF svc.heartbeat_stop_event THEN "dead" ELSE "check"]
    /\ UNCHANGED <<retry, tuya, switch, calendar, svc, call, fl, run, tick, hist>>

----------------------------------------------------------------------------
(* BusyLightService.startup_sequence *)

\* lines 535-537
StartupConnect ==
    /\ pc["main"] = "start"
    /\ CallConnect("main", "startup")
    /\ UNCHANGED <<retry, tuya, switch, calendar, svc, fl, run, tick, hist>>

\* lines 540-542
StartupAuthenticate ==
    /\ pc["main"] = "authenticate"
    /\ \E ok \in BOOLEAN, e \in Raised :
         LET r == Authenticate(calendar, ok, hist.now) IN
           /\ calendar' = r[1]
           /\ pc' = [pc EXCEPT !["main"] =
                        Onward(~r[2] /\ Escapes("authenticate", e),
                               IF r[2] THEN "startup_flash" ELSE "startup_failed")]
           /\ hist' = [hist EXCEPT !.startup = IF r[2] THEN @ ELSE "failed",
                                   !.phases = IF r[2] THEN Append(@, "authenticate") ELSE @]
    /\ UNCHANGED <<retry, tuya, switch, svc, call, fl, run, tick>>

\* line 546: self.tuya.flash(times=3, duration=1)
StartupFlash ==
    /\ pc["main"] = "startup_flash"
    /\ fl' = [FlashIdle EXCEPT !.times = StartupFlashTimes, !.ret = "st_busy_soon"]
    /\ pc' = [pc EXCEPT !["main"] = "flash"]
    /\ hist' = [hist EXCEPT !.phases = Append(@, "flash")]
    /\ UNCHANGED <<retry, tuya, switch, calendar, svc, call, run, tick>>

\* line 551; the frame of flash is dead, the value it returned is kept until
\* the first tick (history)
StartupBusySoon ==
    /\ pc["main"] = "st_busy_soon"
    /\ \E q \in Query("is_busy_soon", calendar, BusySoonAnswers) :
         /\ calendar' = q.calendar
         /\ run' = AfterBusySoon(run, q)
         /\ pc' = [pc EXCEPT !["main"] = Onward(q.escaped, "st_currently_busy")]
    /\ fl' = [FlashIdle EXCEPT !.result = fl.result]
    /\ UNCHANGED <<retry, tuya, switch, svc, call, tick, hist>>

\* line 552
StartupCurrentlyBusy ==
    /\ pc["main"] = "st_currently_busy"
    /\ \E q \in Query("is_currently_busy", calendar, CurrentlyBusyAnswers) :
         /\ calendar' = q.calendar
         /\ run' = AfterCurrentlyBusy(run, q)
         /\ pc' = [pc EXCEPT !["main"] = Onward(q.escaped, "st_decide")]
    /\ UNCHANGED <<retry, tuya, switch, svc, call, fl, tick, hist>>

\* lines 554, 720: should_be_on = busy_soon or currently_busy
ShouldBeOn_BusySoonOnly(busy_soon, currently_busy) == busy_soon

ShouldBeOn(busy_soon, currently_busy) == busy_soon \/ currently_busy

\* lines 554-569: is_busy = should_be_on, then set_state(should_be_on)
StartupDecide ==
    /\ pc["main"] = "st_decide"
    /\ LET should_be_on == ShouldBeOn(run.busy_soon, run.currently_busy) IN
         /\ run' = [RunInit EXCEPT !.should_be_on = should_be_on,
                                   !.current_event_name =
                                       Or(run.event_soon, run.current_event),
                                   !.queried = run.queried]
         /\ svc' = [svc EXCEPT !.is_busy = should_be_on]
         /\ hist' = [hist EXCEPT !.last_desired = Some(should_be_on),
                                 !.phases = Append(@, "decide")]
         /\ CallSetState("main", should_be_on, "st_done")
    /\ UNCHANGED <<retry, tuya, switch, calendar, fl, tick>>

----------------------------------------------------------------------------
(* BusyLightService.run                                                    *)
(* The except clause of the loop (lines 764-767) has no action: connect,   *)
(* authenticate, set_state and the two queries catch every Exception and   *)
(* return a value, and the probe catches its socket errors, so nothing in  *)
(* the try block raises one. KeyboardInterrupt is not an Exception: it     *)
(* leaves run() and is the action Interrupt.                               *)

\* lines 670-673: startup failed; start the error flash and return
RunStartupFailed ==
    /\ pc["main"] = "startup_failed"
    /\ StartErrorFlash("stop")
    /\ UNCHANGED <<retry, tuya, switch, calendar, fl, run, tick>>

\* lines 577, 676-691: startup succeeded; start_heartbeat_monitor (lines 599-604),
\* sleep to the minute boundary, initialise the locals of the loop
RunStartHeartbeat ==
    /\ pc["main"] = "st_done"
    /\ StartHeartbeatMonitor("loop", [hist EXCEPT !.startup = "ok",
                                                 !.phases = Append(@, "heartbeat")])
    /\ run' = RunInit
    /\ call' = [call EXCEPT !["main"] = NoCall]
    /\ UNCHANGED <<retry, tuya, switch, calendar, fl, tick>>

\* lines 693-702: while self.running; the connectivity probe and wait_for_network
LoopHead ==
    /\ pc["main"] = "loop"
    /\ IF ~svc.running
       THEN /\ pc' = [pc EXCEPT !["main"] = "stop"]
            /\ UNCHANGED <<svc, call, tick, hist>>
       ELSE \E available, restored \in BOOLEAN :
              /\ tick' = [TickInit EXCEPT !.prev_desired = hist.last_desired,
                                          !.recovered = ~available /\ restored]
              /\ IF available
                 THEN /\ pc' = [pc EXCEPT !["main"] = "busy_soon"]
                      /\ UNCHANGED <<svc, call, hist>>
                 ELSE IF restored
                      THEN /\ pc' = [pc EXCEPT !["main"] = "reconnect_tuya"]
                           /\ UNCHANGED <<svc, call, hist>>
                      ELSE StartErrorFlash("outage_sleep")
    /\ fl' = FlashIdle
    /\ UNCHANGED <<retry, tuya, switch, calendar, run>>

\* lines 701-702: time.sleep(self.poll_interval); continue
LoopOutageSleep ==
    /\ pc["main"] = "outage_sleep"
    /\ pc' = [pc EXCEPT !["main"] = "loop"]
    /\ UNCHANGED <<retry, tuya, switch, calendar, svc, call, fl, run, tick, hist>>

\* lines 706-707
LoopReconnectTuya ==
    /\ pc["main"] = "reconnect_tuya"
    /\ CallConnect("main", "reconnect")
    /\ UNCHANGED <<retry, tuya, switch, calendar, svc, fl, run, tick, hist>>

\* lines 708-709
LoopReconnectCalendar ==
    /\ pc["main"] = "reconnect_calendar"
    /\ \E ok \in BOOLEAN, e \in Raised :
         /\ calendar' = Authenticate(calendar, ok, hist.now)[1]
         /\ pc' = [pc EXCEPT !["main"] =
                      Onward(~ok /\ Escapes("authenticate", e), "busy_soon")]
         /\ tick' = [tick EXCEPT !.reconnects =
                        Append(@, [op |-> "authenticate", ok |-> ok])]
    /\ call' = [call EXCEPT !["main"] = NoCall]
    /\ UNCHANGED <<retry, tuya, switch, svc, fl, run, hist>>

\* line 717
LoopBusySoon ==
    /\ pc["main"] = "busy_soon"
    /\ \E q \in Query("is_busy_soon", calendar, BusySoonAnswers) :
         /\ calendar' = q.calendar
         /\ run' = AfterBusySoon(run, q)
         /\ tick' = [tick EXCEPT !.query_failed = @ \/ q.failed,
                                 !.recovered = FALSE, !.reconnects = <<>>]
         /\ pc' = [pc EXCEPT !["main"] = Onward(q.escaped, "currently_busy")]
    /\ UNCHANGED <<retry, tuya, switch, svc, call, fl, hist>>

\* line 718
LoopCurrentlyBusy ==
    /\ pc["main"] = "currently_busy"
    /\ \E q \in Query("is_currently_busy", calendar, CurrentlyBusyAnswers) :
         /\ calendar' = q.calendar
         /\ run' = AfterCurrentlyBusy(run, q)
         /\ tick' = [tick EXCEPT !.query_failed = @ \/ q.failed]
         /\ pc' = [pc EXCEPT !["main"] = Onward(q.escaped, "decide")]
    /\ UNCHANGED <<retry, tuya, switch, svc, call, fl, hist>>

\* line 738: self.is_busy = should_be_on, whatever set_state will return
TrackedAfterDecision_KeepUntilWritten(is_busy, should_be_on) == is_busy

TrackedAfterDecision(is_busy, should_be_on) == should_be_on

\* lines 720-745: the decision, and the write when the desired state changed
LoopDecide ==
    /\ pc["main"] = "decide"
    /\ LET should_be_on == ShouldBeOn(run.busy_soon, run.currently_busy) IN
         /\ run' = [RunInit EXCEPT !.should_be_on = should_be_on,
                                   !.current_event_name =
                                       Or(run.event_soon, run.current_event),
                                   !.queried = run.queried]
         /\ hist' = [hist EXCEPT !.last_desired = Some(should_be_on)]
         /\ IF should_be_on # svc.is_busy
            THEN /\ svc' = [svc EXCEPT !.is_busy = TrackedAfterDecision(@, should_be_on)]
                 /\ tick' = [tick EXCEPT !.decided = TRUE, !.busy_before = svc.is_busy,
                                         !.writes = @ + 1]
                 /\ CallSetState("main", should_be_on, "stop_error_flash")
            ELSE /\ tick' = [tick EXCEPT !.decided = TRUE, !.busy_before = svc.is_busy]
                 /\ pc' = [pc EXCEPT !["main"] = "stop_error_flash"]
                 /\ UNCHANGED <<svc, call>>
    /\ UNCHANGED <<retry, tuya, switch, calendar, fl>>

\* lines 747-752 and stop_error_flash, lines 628-629
LoopStopErrorFlash ==
    /\ pc["main"] = "stop_error_flash"
    /\ tick' = [tick EXCEPT !.write_failed = (tick.writes > 0 /\ ~call["main"].result)]
    /\ svc' = StopErrorFlashSignal(svc)
    /\ pc' = [pc EXCEPT !["main"] = IF svc.error_flash_thread /\ Alive("flash")
                                    THEN "join_error_flash" ELSE "tick_sleep"]
    /\ UNCHANGED <<retry, tuya, switch, calendar, call, fl, run, hist>>

\* stop_error_flash, line 630
LoopJoinErrorFlash ==
    /\ pc["main"] = "join_error_flash"
    /\ JoinReturns("flash")
    /\ pc' = [pc EXCEPT !["main"] = "tick_sleep"]
    /\ UNCHANGED <<retry, tuya, switch, calendar, svc, call, fl, run, tick, hist>>

\* lines 754-762: sleep until the next minute; the locals of the tick are dead
LoopSleep ==
    /\ pc["main"] = "tick_sleep"
    /\ pc' = [pc EXCEPT !["main"] = "loop"]
    /\ run' = RunInit
    /\ call' = [call EXCEPT !["main"] = NoCall]
    /\ UNCHANGED <<retry, tuya, switch, calendar, svc, fl, tick, hist>>

----------------------------------------------------------------------------
(* main and BusyLightService.stop *)

StopPositions ==
    {"stop", "stop_join_error_flash", "stop_heartbeat", "stop_join_heartbeat",
     "stop_turn_off", "exited", "idle"}

\* the main thread is inside service.run()
InRun ==
    /\ pc["main"] \notin StopPositions
    /\ ~(InSetState("main") /\ call["main"].ret = "exited")

\* main, lines 787-794: KeyboardInterrupt ends run(); the finally clause calls stop()
Interrupt ==
    /\ InRun
    /\ pc' = [pc EXCEPT !["main"] = "stop"]
    /\ hist' = [hist EXCEPT !.interrupted = TRUE]
    /\ call' = [call EXCEPT !["main"] = NoCall]
    /\ fl' = FlashIdle
    /\ run' = RunInit
    /\ tick' = TickInit
    /\ UNCHANGED <<retry, tuya, switch, calendar, svc>>

\* stop, lines 772-773, and stop_error_flash, lines 628-629
Stop ==
    /\ pc["main"] = "stop"
    /\ svc' = StopErrorFlashSignal([svc EXCEPT !.running = FALSE])
    /\ pc' = [pc EXCEPT !["main"] = IF svc.error_flash_thread /\ Alive("flash")
                                    THEN "stop_join_error_flash" ELSE "stop_heartbeat"]
    /\ UNCHANGED <<retry, tuya, switch, calendar, call, fl, run, tick, hist>>

\* stop_error_flash, line 630
StopJoinErrorFlash ==
    /\ pc["main"] = "stop_join_error_flash"
    /\ JoinReturns("flash")
    /\ pc' = [pc EXCEPT !["main"] = "stop_heartbeat"]
    /\ UNCHANGED <<retry, tuya, switch, calendar, svc, call, fl, run, tick, hist>>

\* stop, line 774, and stop_heartbeat_monitor, lines 609-610
StopHeartbeat ==
    /\ pc["main"] = "stop_heartbeat"
    /\ IF svc.heartbeat_thread /\ Alive("heartbeat")
       THEN /\ svc' = [svc EXCEPT !.heartbeat_stop_event = TRUE]
            /\ pc' = [pc EXCEPT !["main"] = "stop_join_heartbeat"]
       ELSE /\ svc' = svc
            /\ pc' = [pc EXCEPT !["main"] = "stop_turn_off"]
    /\ UNCHANGED <<retry, tuya, switch, calendar, call, fl, run, tick, hist>>

\* stop_heartbeat_monitor, line 611
StopJoinHeartbeat ==
    /\ pc["main"] = "stop_join_heartbeat"
    /\ JoinReturns("heartbeat")
    /\ pc' = [pc EXCEPT !["main"] = "stop_turn_off"]
    /\ UNCHANGED <<retry, tuya, switch, calendar, svc, call, fl, run, tick, hist>>

\* stop, line 777: if self.tuya.connection_verified
TurnsOffAtStop_Always(tu) == TRUE

TurnsOffAtStop(tu) == tu.connection_verified

\* stop, lines 776-778
StopTurnOff ==
    /\ pc["main"] = "stop_turn_off"
    /\ IF TurnsOffAtStop(tuya)
       THEN CallSetState("main", FALSE, "exited")
       ELSE /\ pc' = [pc EXCEPT !["main"] = "exited"]
            /\ call' = call
    /\ UNCHANGED <<retry, tuya, switch, calendar, svc, fl, run, tick, hist>>

----------------------------------------------------------------------------
(* Spec: the process, from construction *)

Init ==
    /\ retry = RetryIdle
    /\ tuya = TuyaInit
    /\ switch \in BOOLEAN
    /\ calendar = CalendarInit
    /\ svc = SvcInit
    /\ pc = PcInit
    /\ call = CallInit
    /\ fl = FlashIdle
    /\ run = RunInit
    /\ tick = TickInit
    /\ hist = HistInit

Next ==
    \/ StartupConnect
    \/ StartupAuthenticate
    \/ StartupFlash
    \/ FlashSteps
    \/ StartupBusySoon
    \/ StartupCurrentlyBusy
    \/ StartupDecide
    \/ RunStartupFailed
    \/ RunStartHeartbeat
    \/ LoopHead
    \/ LoopOutageSleep
    \/ LoopReconnectTuya
    \/ LoopReconnectCalendar
    \/ LoopBusySoon
    \/ LoopCurrentlyBusy
    \/ LoopDecide
    \/ LoopStopErrorFlash
    \/ LoopJoinErrorFlash
    \/ LoopSleep
    \/ Interrupt
    \/ Stop
    \/ StopJoinErrorFlash
    \/ StopHeartbeat
    \/ StopJoinHeartbeat
    \/ StopTurnOff
    \/ \E t \in Threads : SetStateEnsure(t)
    \/ \E t \in Threads : ConnectAttempts(t)
    \/ \E t \in Threads : ConnectMark(t)
    \/ \E t \in Threads : SetStateWrite(t)
    \/ FlashErrorCheck
    \/ FlashErrorWaitOn
    \/ FlashErrorWaitOff
    \/ HeartbeatBeat
    \/ HeartbeatWait

Spec == Init /\ [][Next]_vars

\* the steps of the error-flash worker
FlashErrorNext ==
    \/ FlashErrorCheck
    \/ FlashErrorWaitOn
    \/ FlashErrorWaitOff
    \/ SetStateEnsure("flash")
    \/ ConnectAttempts("flash")
    \/ ConnectMark("flash")
    \/ SetStateWrite("flash")

\* the process with a worker thread that is scheduled, and whose device calls
\* return, as long as it has a step to take
SpecLive == Spec /\ WF_vars(FlashErrorNext)

\* the steps of the main thread, KeyboardInterrupt apart
MainNext ==
    \/ StartupConnect
    \/ StartupAuthenticate
    \/ StartupFlash
    \/ FlashSteps
    \/ StartupBusySoon
    \/ StartupCurrentlyBusy
    \/ StartupDecide
    \/ RunStartupFailed
    \/ RunStartHeartbeat
    \/ LoopHead
    \/ LoopOutageSleep
    \/ LoopReconnectTuya
    \/ LoopReconnectCalendar
    \/ LoopBusySoon
    \/ LoopCurrentlyBusy
    \/ LoopDecide
    \/ LoopStopErrorFlash
    \/ LoopJoinErrorFlash
    \/ LoopSleep
    \/ Stop
    \/ StopJoinErrorFlash
    \/ StopHeartbeat
    \/ StopJoinHeartbeat
    \/ StopTurnOff
    \/ SetStateEnsure("main")
    \/ ConnectAttempts("main")
    \/ ConnectMark("main")
    \/ SetStateWrite("main")

\* the steps of the heartbeat worker
HeartbeatNext ==
    \/ HeartbeatBeat
    \/ HeartbeatWait

\* the process with a heartbeat worker that is scheduled as long as it has a
\* step to take
SpecBeat == Spec /\ WF_vars(HeartbeatNext)

\* the process with both the main thread and the error-flash worker scheduled:
\* sleeps end, wait_for_network and join time out, device and calendar calls
\* return
SpecRun == Spec /\ WF_vars(FlashErrorNext) /\ WF_vars(MainNext)

\* the steps of stop()
StopNext ==
    \/ Stop
    \/ StopJoinErrorFlash
    \/ StopHeartbeat
    \/ StopJoinHeartbeat
    \/ StopTurnOff

\* the process with both workers scheduled and stop() running on once it is
\* called: the device calls of the error-flash worker return, waits and joins
\* end or time out
SpecStop == Spec /\ WF_vars(FlashErrorNext) /\ WF_vars(HeartbeatNext) /\ WF_vars(StopNext)

----------------------------------------------------------------------------
(* SpecWorkers: the service after construction, under any sequence of calls   *)
(* of start_error_flash, stop_error_flash, start_heartbeat_monitor and        *)
(* stop_heartbeat_monitor by one caller, with the workers running             *)

InitWorkers ==
    /\ retry = RetryIdle
    /\ tuya = TuyaInit
    /\ switch \in BOOLEAN
    /\ calendar = CalendarInit
    /\ svc = SvcInit
    /\ pc = [PcInit EXCEPT !["main"] = "caller"]
    /\ call = CallInit
    /\ fl = FlashIdle
    /\ run = RunInit
    /\ tick = TickInit
    /\ hist = HistInit

\* start_error_flash, lines 614-624
WorkersStartErrorFlash ==
    /\ pc["main"] = "caller"
    /\ StartErrorFlash("caller")
    /\ UNCHANGED <<retry, tuya, switch, calendar, fl, run, tick>>

\* stop_error_flash, lines 628-629
WorkersStopErrorFlash ==
    /\ pc["main"] = "caller"
    /\ svc' = StopErrorFlashSignal(svc)
    /\ pc' = [pc EXCEPT !["main"] = IF svc.error_flash_thread /\ Alive("flash")
                                    THEN "caller_join_error_flash" ELSE "caller"]
    /\ UNCHANGED <<retry, tuya, switch, calendar, call, fl, run, tick, hist>>

\* stop_error_flash, line 630
WorkersJoinErrorFlash ==
    /\ pc["main"] = "caller_join_error_flash"
    /\ JoinReturns("flash")
    /\ pc' = [pc EXCEPT !["main"] = "caller"]
    /\ UNCHANGED <<retry, tuya, switch, calendar, svc, call, fl, run, tick, hist>>

\* start_heartbeat_monitor, lines 599-604
WorkersStartHeartbeat ==
    /\ pc["main"] = "caller"
    /\ StartHeartbeatMonitor("caller", hist)
    /\ UNCHANGED <<retry, tuya, switch, calendar, call, fl, run, tick>>

\* stop_heartbeat_monitor, lines 609-610
WorkersStopHeartbeat ==
    /\ pc["main"] = "caller"
    /\ IF svc.heartbeat_thread /\ Alive("heartbeat")
       THEN /\ svc' = [svc EXCEPT !.heartbeat_stop_event = TRUE]
            /\ pc' = [pc EXCEPT !["main"] = "caller_join_heartbeat"]
       ELSE /\ svc' = svc
            /\ pc' = pc
    /\ UNCHANGED <<retry, tuya, switch, calendar, call, fl, run, tick, hist>>

\* stop_heartbeat_monitor, line 611
WorkersJoinHeartbeat ==
    /\ pc["main"] = "caller_join_heartbeat"
    /\ JoinReturns("heartbeat")
    /\ pc' = [pc EXCEPT !["main"] = "caller"]
    /\ UNCHANGED <<retry, tuya, switch, calendar, svc, call, fl, run, tick, hist>>

NextWorkers ==
    \/ WorkersStartErrorFlash
    \/ WorkersStopErrorFlash
    \/ WorkersJoinErrorFlash
    \/ WorkersStartHeartbeat
    \/ WorkersStopHeartbeat
    \/ WorkersJoinHeartbeat
    \/ FlashErrorNext
    \/ HeartbeatNext

SpecWorkers == InitWorkers /\ [][NextWorkers]_vars

----------------------------------------------------------------------------
(* Properties of the process, under Spec *)

\* C1: the error-flash worker and the main thread never have a set_state call in
\* progress at the same time.
C1_NoConcurrentSetState == ~(InSetState("main") /\ InSetState("flash"))

\* the decision of the tick is taken and its set_state, if any, has returned
TickDecided == pc["main"] = "stop_error_flash"

\* the tick is over: stop_error_flash has returned
TickOver == pc["main"] = "tick_sleep"

\* C2: a tick issues a set_state iff the desired state differs from the tracked
\* is_busy; a tick whose desired state is that of the decision before it issues
\* none, and a tick whose desired state differs from it issues exactly one.
C2_WriteIffDesiredChanged ==
    TickDecided =>
        /\ tick.writes = (IF run.should_be_on # tick.busy_before THEN 1 ELSE 0)
        /\ tick.prev_desired = Some(run.should_be_on) => tick.writes = 0
        /\ tick.prev_desired = Some(~run.should_be_on) => tick.writes = 1

\* the second of two consecutive busy decisions: no write
C2_Witness ==
    /\ TickDecided
    /\ tick.prev_desired = Some(TRUE)
    /\ run.should_be_on
    /\ tick.busy_before
    /\ tick.writes = 0

\* C3: in a tick where is_busy_soon or is_currently_busy fails, the tracked
\* is_busy keeps its value and the main loop issues no set_state.
C3_FailedQueryKeepsState ==
    (TickDecided /\ tick.query_failed)
        => (svc.is_busy = tick.busy_before /\ tick.writes = 0)

\* C4: after a tick in which a calendar query or the device write failed, the
\* error flash is running (a worker is alive and its cancel signal is not raised).
C4_FailedTickFlashesError ==
    (TickOver /\ (tick.query_failed \/ tick.write_failed))
        => (Alive("flash") /\ ~svc.error_stop_event)

\* C5: after a failed startup the run never enters the polling loop, and the
\* cancel signal of the error-flash worker it started is not raised before an
\* external shutdown request.
C5_StartupFailureFlashesUntilShutdown ==
    (hist.startup = "failed" /\ ~hist.interrupted)
        => /\ pc["main"] \in {"startup_failed"} \cup StopPositions \cup {"ss_ensure", "ss_write"}
           /\ InSetState("main") => call["main"].ret = "exited"
           /\ ~svc.error_stop_event

----------------------------------------------------------------------------
(* Properties of retry_with_exponential_backoff, under SpecRetry *)

RetryDone == retry.pc = "done"

\* C6: an operation that fails on every call is called exactly max_retries
\* times, with a sleep between two attempts only (max_retries - 1 sleeps, none
\* after the last failure), and the call then raises the error of the last attempt.
C6_AlwaysFailingExhausts ==
    (RetryDone /\ retry.max_retries >= 1 /\ retry.failures = retry.calls)
        => /\ retry.calls = retry.max_retries
           /\ Len(retry.sleeps) = retry.max_retries - 1
           /\ retry.result = "raised"
           /\ retry.raised = retry.last_error

C6_Witness ==
    /\ RetryDone
    /\ retry.max_retries = 3
    /\ retry.failures = 3
    /\ retry.calls = 3
    /\ Len(retry.sleeps) = 2
    /\ retry.raised = "refused"

\* C7: an operation that fails k < max_retries times and then succeeds makes the
\* call return after exactly k + 1 calls and k sleeps, and it is not called again
\* once it has succeeded.
C7_SuccessAfterKFailures ==
    retry.result = "returned"
        => /\ retry.failures < retry.max_retries
           /\ retry.calls = retry.failures + 1
           /\ Len(retry.sleeps) = retry.failures
           /\ ~ENABLED NextRetry

C7_Witness ==
    /\ RetryDone
    /\ retry.result = "returned"
    /\ retry.failures = 2
    /\ retry.calls = 3
    /\ Len(retry.sleeps) = 2

\* the delay before retry i (0-indexed) without jitter
BaseDelay(i) == retry.initial_delay * Pow2(i)

\* C8 as stated: the sleep before retry i lies within
\* [initial_delay*2^i, min(initial_delay*2^i + 1, max_delay)].
C8_DelayInStatedInterval ==
    \A k \in 1 .. Len(retry.sleeps) :
        /\ retry.sleeps[k] >= BaseDelay(k - 1)
        /\ retry.sleeps[k] <= Min(BaseDelay(k - 1) + TicksPerSecond, retry.max_delay)

\* C8, amended: the sleep before retry i lies within
\* [min(initial_delay*2^i, max_delay), min(initial_delay*2^i + 1, max_delay)]; no
\* sleep exceeds max_delay, and a later sleep is never below the unjittered
\* delay of an earlier one.
C8_DelayInClampedInterval ==
    \A k \in 1 .. Len(retry.sleeps) :
        /\ retry.sleeps[k] >= Min(BaseDelay(k - 1), retry.max_delay)
        /\ retry.sleeps[k] <= Min(BaseDelay(k - 1) + TicksPerSecond, retry.max_delay)
        /\ retry.sleeps[k] <= retry.max_delay
        /\ \A j \in 1 .. k : retry.sleeps[k] >= Min(BaseDelay(j - 1), retry.max_delay)

\* a sleep that was clamped: the exponential delay alone exceeds max_delay
C8_Witness ==
    \E k \in 1 .. Len(retry.sleeps) :
        /\ BaseDelay(k - 1) > retry.max_delay
        /\ retry.sleeps[k] = retry.max_delay

----------------------------------------------------------------------------
(* Properties of flash, under SpecFlash *)

FlashReturned == pc["main"] = "fl_done"

\* the n on/off pairs: on, off, on, off, ...
Toggles(n) == [k \in 1 .. 2 * n |-> (k % 2 = 1)]

CallStates(calls) == [k \in 1 .. Len(calls) |-> calls[k].state]

AllOk(calls) == \A k \in 1 .. Len(calls) : calls[k].ok

\* one of the 2n toggles failed
ToggleFailed == \E k \in 1 .. Len(fl.calls) : k <= 2 * fl.times /\ ~fl.calls[k].ok

\* a failed toggle is the last call flash issued, and flash returned False
AbortsAtFailedToggle ==
    ToggleFailed => /\ ~fl.result
                    /\ ~fl.calls[Len(fl.calls)].ok
                    /\ AllOk(SubSeq(fl.calls, 1, Len(fl.calls) - 1))
                    /\ Len(fl.calls) <= 2 * fl.times
                    /\ CallStates(fl.calls) = SubSeq(Toggles(fl.times), 1, Len(fl.calls))

\* C9 as stated: with all writes succeeding, 2n alternating calls, then one
\* restoring call only if the pre-flash state differs from off; a failed
\* toggle ends flash with False and no further call.
C9_RestoreOnlyIfDiffers ==
    FlashReturned =>
        /\ AllOk(fl.calls) =>
             CallStates(fl.calls) =
                 Toggles(fl.times) \o
                     (IF fl.original_state # Some(FALSE) THEN fl.original_state ELSE <<>>)
        /\ AbortsAtFailedToggle

\* C9, amended: when the 2n toggles succeed, flash issues exactly the 2n
\* alternating calls followed by exactly one restoring set_state(pre-flash
\* state), also when the pre-flash state is off; a failed toggle ends flash
\* with False and no further call.
C9_AlwaysRestores ==
    FlashReturned =>
        /\ ~ToggleFailed =>
             CallStates(fl.calls) = Toggles(fl.times) \o fl.original_state
        /\ AbortsAtFailedToggle

C9_Witness ==
    /\ FlashReturned
    /\ fl.times = 3
    /\ fl.original_state = Some(FALSE)
    /\ Len(fl.calls) = 7
    /\ AllOk(fl.calls)

\* the state written by the last successful set_state of flash, the pre-flash
\* state if there is none
RECURSIVE LastWritten(_, _)
LastWritten(calls, before) ==
    IF calls = <<>> THEN before
    ELSE IF calls[Len(calls)].ok THEN Some(calls[Len(calls)].state)
         ELSE LastWritten(SubSeq(calls, 1, Len(calls) - 1), before)

\* C10: flash returns True only if every set_state it issued succeeded, the
\* restoring call included; after True the last-known state is the pre-flash
\* state, after False it is the state of the last successful set_state.
C10_TrueOnlyIfAllSucceeded ==
    FlashReturned =>
        /\ fl.result => AllOk(fl.calls) /\ tuya.last_state = fl.original_state
        /\ ~fl.result => tuya.last_state = LastWritten(fl.calls, fl.original_state)

----------------------------------------------------------------------------
(* Properties of the error-flash worker, under SpecLive *)

WorkerWaits == {"check", "wait_on", "wait_off"}

\* the worker's cancel signal is raised and the worker has not terminated
Cancelling == svc.error_stop_event /\ Alive("flash")

\* a step of a cancelled worker: it begins no set_state, and from a test of the
\* signal or a wait it terminates
CancelledStep ==
    Cancelling =>
        /\ ~InSetState("flash") => ~InSetState("flash")'
        /\ (pc["flash"] \in WorkerWaits /\ pc'["flash"] # pc["flash"])
              => pc'["flash"] = "dead"

\* a step of a worker that is not cancelled: set_state(True), wait,
\* set_state(False), wait, and again, whatever set_state returned
AlternatingStep ==
    (~svc.error_stop_event /\ pc'["flash"] # pc["flash"]) =>
        /\ pc["flash"] = "check" =>
              /\ pc'["flash"] = "ss_ensure"
              /\ call'["flash"].state = TRUE /\ call'["flash"].ret = "wait_on"
        /\ pc["flash"] = "wait_on" =>
              /\ pc'["flash"] = "ss_ensure"
              /\ call'["flash"].state = FALSE /\ call'["flash"].ret = "wait_off"
        /\ pc["flash"] = "wait_off" => pc'["flash"] = "check"
        /\ (InSetState("flash") /\ ~InSetState("flash")')
              => pc'["flash"] = call["flash"].ret

----------------------------------------------------------------------------
(* Properties of set_state and of the connection health, under Spec *)

\* set_state has returned to its caller
SetStateReturned(t) == call[t].ret # "none" /\ pc[t] = call[t].ret

\* the step in which ensure_connection fails inside the set_state of thread t
EnsureFails(t) == call[t].ensured # "failed" /\ call'[t].ensured = "failed"

\* the step leaves the switch and the last-known state alone
DeviceUntouched == switch' = switch /\ tuya'.last_state = tuya.last_state

\* C12: if ensure_connection fails, set_state returns False, has issued no write
\* command, and its steps left the switch and last_state unchanged.
C12_FailedEnsureWritesNothing ==
    /\ [](\A t \in Threads :
            call[t].ensured = "failed" =>
                /\ ~InSetState(t)
                /\ ~call[t].result
                /\ call[t].attempt = 0)
    /\ [][\A t \in Threads :
            /\ EnsureFails(t) => DeviceUntouched
            /\ (pc[t] = "ss_ensure" /\ pc'[t] = "connect") => DeviceUntouched]_vars

\* the run loop's set_state returned after a failed ensure_connection, the
\* state of the switch being known
C12_Witness ==
    /\ SetStateReturned("main")
    /\ call["main"].ret = "stop_error_flash"
    /\ call["main"].ensured = "failed"
    /\ tuya.last_state = Some(TRUE)

\* the step in which the write of thread t, after a successful
\* ensure_connection, returns
WriteReturns(t) == pc[t] = "ss_write" /\ pc'[t] = call[t].ret

\* C13: after a successful ensure_connection, set_state(s) returns True iff one
\* of at most 3 write attempts succeeded, and last_state is then s; when all 3
\* fail it returns False, connection_verified is False and last_state is as
\* ensure_connection left it, so that an ensure_connection run in that state
\* calls connect() before any write.
C13_WriteOutcome ==
    /\ [](\A t \in Threads :
            /\ call[t].attempt <= SetStateRetries
            /\ call[t].result => (call[t].ensured = "ok" /\ call[t].attempt < SetStateRetries)
            /\ (SetStateReturned(t) /\ call[t].ensured = "ok" /\ ~call[t].result)
                  => call[t].attempt = SetStateRetries)
    /\ [][\A t \in Threads :
            /\ (WriteReturns(t) /\ call'[t].result) =>
                  /\ call[t].ensured = "ok"
                  /\ tuya'.last_state = Some(call[t].state)
                  /\ switch' = call[t].state
            /\ (WriteReturns(t) /\ ~call'[t].result) =>
                  /\ ~tuya'.connection_verified
                  /\ DeviceUntouched
                  /\ \A stale \in BOOLEAN : NeedsReconnect(tuya', stale)
            /\ (pc[t] = "ss_write" /\ call'[t].attempt = call[t].attempt + 1)
                  => DeviceUntouched
            /\ (pc[t] = "ss_ensure" /\ ~tuya.connection_verified
                   /\ pc'[t] \in {"connect", "ss_write"}) => pc'[t] = "connect"]_vars

\* set_state(True) of the run loop returned False after 3 failed attempts
C13_Witness ==
    /\ SetStateReturned("main")
    /\ call["main"].ret = "stop_error_flash"
    /\ call["main"].state
    /\ call["main"].ensured = "ok"
    /\ call["main"].attempt = SetStateRetries
    /\ ~call["main"].result
    /\ ~tuya.connection_verified

\* a thread is about to read the health fields: the test of ensure_connection
\* (lines 159-161) or the test of stop (line 777)
ReadsHealth(t) == pc[t] \in {"ss_ensure", "stop_turn_off"}

\* C14: connection_verified = True implies that last_successful_connection is
\* set, under any interleaving of the main thread and the error-flash worker;
\* stated for the states, of a run that no KeyboardInterrupt has cut short, in
\* which a thread is about to read the two fields.
C14_VerifiedImpliesConnectedAt ==
    (~hist.interrupted /\ \E t \in Threads : ReadsHealth(t))
        => (tuya.connection_verified => tuya.last_successful_connection # None)

----------------------------------------------------------------------------
(* Properties of the staleness tests, under SpecHealth *)

\* seconds since the last success
Elapsed(last) == hist.now - last[1]

\* C15: health is fresh right after a successful connect / authenticate and
\* stale as soon as the time since the last success reaches the threshold
\* (300 s for the device, 1800 s for the calendar): ensure_connection /
\* ensure_authenticated take their reconnect branch iff elapsed >= threshold.
C15_StaleFromThreshold ==
    /\ (pc["main"] \in {"connect", "probe"} /\ tuya.connection_verified) =>
          (pc["main"] = "connect"
              <=> Elapsed(tuya.last_successful_connection) >= DeviceStaleAfter)
    /\ (pc["main"] \in {"reauthenticate", "credentials"} /\ calendar.service) =>
          (pc["main"] = "reauthenticate"
              <=> Elapsed(calendar.last_successful_auth) >= CalendarStaleAfter)

\* the main thread leaves position p in this step
Leaves(p) == pc["main"] = p /\ pc'["main"] # p

\* C21: ensure_connection calls connect() when the health is unverified or
\* stale; otherwise it probes the device: when the probe succeeds it returns
\* True with last_successful_connection set to the present time and without
\* reconnecting, when it fails or raises it returns what connect() returns.
C21_EnsureConnectionBranches ==
    [][/\ Leaves("device_health") =>
             /\ pc'["main"] =
                  IF \/ ~tuya.connection_verified
                     \/ tuya.last_successful_connection = None
                     \/ IsStale(hist.now, tuya.last_successful_connection, DeviceStaleAfter)
                  THEN "connect" ELSE "probe"
             /\ tuya' = tuya
       /\ Leaves("probe") =>
             IF pc'["main"] = "ss_write"
             THEN /\ tuya' = [tuya EXCEPT !.last_successful_connection = Some(hist.now)]
                  /\ call'["main"].ensured = "ok"
                  /\ call'["main"].conn = "none"
             ELSE /\ pc'["main"] = "connect"
                  /\ tuya' = tuya
       /\ Leaves("connect_mark") =>
             /\ pc'["main"] = "ss_write"
             /\ call'["main"].ensured = "ok"
       /\ (Leaves("connect") /\ pc'["main"] # "connect_mark") =>
             /\ pc'["main"] = call["main"].ret
             /\ call'["main"].ensured = "failed"
             /\ ~tuya'.connection_verified]_vars

\* a connection made at most MaxStart seconds after the start was found fresh
\* later on, probed with success, and ensure_connection returned True
C21_Witness ==
    /\ pc["main"] = "ss_write"
    /\ call["main"].conn = "none"
    /\ call["main"].ensured = "ok"
    /\ hist.now > MaxStart
    /\ tuya.last_successful_connection = Some(hist.now)

----------------------------------------------------------------------------
(* Properties of stop, under Spec *)

\* the main thread is inside the set_state(False) of stop (line 778)
InFinalSetState == InSetState("main") /\ call["main"].ret = "exited"

\* stop() is past stop_error_flash's test of the worker (line 628)
PastStopErrorFlash ==
    \/ pc["main"] \in {"stop_join_error_flash", "stop_heartbeat", "stop_join_heartbeat",
                       "stop_turn_off", "exited"}
    \/ InFinalSetState

\* stop() is past stop_heartbeat_monitor's test of the worker (line 609)
PastStopHeartbeat ==
    \/ pc["main"] \in {"stop_join_heartbeat", "stop_turn_off", "exited"}
    \/ InFinalSetState

\* the step of stop's lines 777-778
TurnOffStep == pc["main"] = "stop_turn_off" /\ pc'["main"] # "stop_turn_off"

\* C16: stop() sets running to False, raises the cancel signal of every alive
\* error-flash and heartbeat worker, and then issues set_state(False) iff
\* connection_verified is True at that moment; otherwise it ends having issued
\* no device write.
C16_StopCancelsThenTurnsOff ==
    /\ [](/\ PastStopErrorFlash =>
              (~svc.running /\ (Alive("flash") => svc.error_stop_event))
          /\ PastStopHeartbeat => (Alive("heartbeat") => svc.heartbeat_stop_event)
          /\ (pc["main"] = "exited" /\ call["main"].ret # "exited") =>
                (call["main"].attempt = 0 /\ ~call["main"].result))
    /\ [][TurnOffStep =>
            IF tuya.connection_verified
            THEN /\ pc'["main"] = "ss_ensure"
                 /\ call'["main"].state = FALSE
                 /\ call'["main"].ret = "exited"
            ELSE /\ pc'["main"] = "exited"
                 /\ call' = call /\ switch' = switch]_vars

\* stop() has ended with unverified device health after cancelling both
\* workers: no set_state was issued
C16_Witness ==
    /\ pc["main"] = "exited"
    /\ call["main"].ret # "exited"
    /\ ~tuya.connection_verified
    /\ svc.error_stop_event
    /\ svc.heartbeat_stop_event
    /\ hist.startup = "ok"

----------------------------------------------------------------------------
(* Properties of the run loop during a network outage, under Spec *)

\* the tick found the network unreachable (lines 696-702) and sleeps
OutageTick == pc["main"] = "outage_sleep"

\* the error flash is running: a worker is alive and not cancelled
ErrorFlashRunning == Alive("flash") /\ ~svc.error_stop_event

\* C17: in every tick of an outage the error flash is running once
\* start_error_flash has returned, and the tick has issued no calendar query and
\* no set_state; the tick in which reachability returns cancels the worker.
C17_OutageFlashesUntilReachable ==
    /\ OutageTick =>
          /\ ErrorFlashRunning
          /\ ~tick.decided /\ tick.writes = 0 /\ run = RunInit
          /\ ~InSetState("main")
    /\ TickOver => (Alive("flash") => svc.error_stop_event)

----------------------------------------------------------------------------
(* Properties of the two calendar queries, under SpecCalendar *)

SoonDone == pc["main"] = "soon_done"

CurrentDone == pc["main"] = "current_done"

\* what the query returned
SoonResult == [busy |-> run.busy_soon, event |-> run.event_soon]

CurrentResult == [busy |-> run.currently_busy, event |-> run.current_event]

\* the event is under way: its start is not after, its end not before, the
\* present instant
UnderWay(event) ==
    Instant(event.start, event.offset) <= Now /\ Now <= Instant(event.end, event.offset)

\* the positions of the returned events that count as busy
OpaqueAt(events) == { k \in 1 .. Len(events) : IsOpaque(events[k]) }

OpaqueUnderWayAt(events) ==
    { k \in 1 .. Len(events) : IsOpaque(events[k]) /\ UnderWay(events[k]) }

\* busy with the title of the first position of S, not busy when S is empty
FirstOf(S, events) ==
    IF S = {} THEN [busy |-> FALSE, event |-> None]
    ELSE [busy |-> TRUE,
          event |-> Some(events[CHOOSE k \in S : \A j \in S : k <= j].summary)]

\* C18: a query that succeeds reports busy iff a returned event (for
\* is_currently_busy: one with start <= now <= end) is opaque or carries no
\* transparency marker, with the title of the first such event.
C18_BusyIffOpaqueEvent ==
    /\ (SoonDone /\ ~tick.query_failed) =>
          SoonResult = FirstOf(OpaqueAt(calendar.events), calendar.events)
    /\ (CurrentDone /\ ~tick.query_failed) =>
          CurrentResult = FirstOf(OpaqueUnderWayAt(calendar.events), calendar.events)

\* the returned events hold no event that counts as busy
NoneFound ==
    \/ SoonDone /\ ~tick.query_failed /\ OpaqueAt(calendar.events) = {}
    \/ CurrentDone /\ ~tick.query_failed /\ OpaqueUnderWayAt(calendar.events) = {}

\* C19: when authentication fails or no opaque event is found, the query
\* returns (False, None); when ensure_authenticated fails no request is issued.
C19_FailedOrFreeReturnsNone ==
    /\ (SoonDone /\ (run.auth_failed \/ NoneFound)) =>
          SoonResult = [busy |-> FALSE, event |-> None]
    /\ (CurrentDone /\ (run.auth_failed \/ NoneFound)) =>
          CurrentResult = [busy |-> FALSE, event |-> None]
    /\ ((SoonDone \/ CurrentDone) /\ run.auth_failed) => run.requests = 0

----------------------------------------------------------------------------
(* Properties of the decision cycle, under Spec *)

BothQueries == <<"is_busy_soon", "is_currently_busy">>

\* the step in which the startup cycle or a tick takes its decision
DecisionStep ==
    /\ pc["main"] \in {"st_decide", "decide"}
    /\ pc'["main"] \in {"ss_ensure", "stop_error_flash"}

\* the main thread is inside the set_state of the startup cycle or of a tick
InCycleSetState == InSetState("main") /\ call["main"].ret \in {"st_done", "stop_error_flash"}

\* the cycle is under way and has not decided yet
BeforeDecision ==
    pc["main"] \in {"st_busy_soon", "st_currently_busy", "st_decide",
                    "busy_soon", "currently_busy", "decide"}

\* C22: in every tick that reaches its decision and in the startup cycle, the
\* desired state is busy_soon OR currently_busy, both queries have been called
\* (the second one whatever the first returned), and a set_state of the cycle
\* is issued after both queries returned, with the desired state as argument.
C22_DesiredIsOrOfBothQueries ==
    /\ [][DecisionStep =>
             /\ run.queried = BothQueries
             /\ run'.should_be_on = (run.busy_soon \/ run.currently_busy)
             /\ hist'.last_desired = Some(run'.should_be_on)
             /\ InSetState("main")' => call'["main"].state = run'.should_be_on]_vars
    /\ [](InCycleSetState =>
             (run.queried = BothQueries /\ call["main"].state = run.should_be_on))
    /\ [](BeforeDecision => (~InSetState("main") /\ tick.writes = 0))
    /\ [](pc["main"] \in {"st_currently_busy", "currently_busy"} =>
             run.queried = <<"is_busy_soon">>)

\* is_busy_soon has reported busy and is_currently_busy is called all the same
C22_Witness ==
    /\ pc["main"] = "decide"
    /\ run.queried = BothQueries
    /\ run.busy_soon
    /\ ~run.currently_busy
    /\ svc.is_busy

----------------------------------------------------------------------------
(* Properties of the startup, under Spec *)

StartupOrder == <<"connect", "authenticate", "flash", "decide", "heartbeat">>

IsPrefix(s, t) == Len(s) <= Len(t) /\ s = SubSeq(t, 1, Len(s))

\* the phase the step records
Records(phase) ==
    /\ Len(hist'.phases) = Len(hist.phases) + 1
    /\ hist'.phases[Len(hist'.phases)] = phase

FlashPositions == {"flash", "fl_loop", "fl_on_ret", "fl_off_ret", "fl_restore", "fl_restore_ret"}

\* the main thread is inside a tick of the run loop
InLoop ==
    \/ pc["main"] \in {"loop", "outage_sleep", "reconnect_tuya", "reconnect_calendar",
                        "busy_soon", "currently_busy", "decide", "stop_error_flash",
                        "join_error_flash", "tick_sleep"}
    \/ InSetState("main") /\ call["main"].ret = "stop_error_flash"
    \/ pc["main"] \in {"connect", "connect_mark"} /\ call["main"].conn = "reconnect"

\* the step in which flash, called by startup_sequence, returns
StartupFlashReturns ==
    /\ pc["main"] \in FlashPositions
    /\ pc'["main"] \notin FlashPositions \cup {"ss_ensure", "stop"}

\* C23: a successful startup connects, authenticates, flashes 3 pulses, then
\* runs one decision cycle that sets is_busy to busy_soon OR currently_busy and
\* issues one set_state with that value; the heartbeat worker and the first tick
\* start after this cycle only, and the startup goes on to the loop whether or
\* not the flash and that set_state succeeded.
C23_StartupOrder ==
    /\ [](/\ IsPrefix(hist.phases, StartupOrder)
          /\ (Alive("heartbeat") \/ InLoop) => hist.phases = StartupOrder)
    /\ [][/\ Records("flash") => fl'.times = 3
          /\ StartupFlashReturns => pc'["main"] = "st_busy_soon"
          /\ Records("decide") =>
                /\ svc'.is_busy = (run.busy_soon \/ run.currently_busy)
                /\ pc'["main"] = "ss_ensure"
                /\ call'["main"].state = svc'.is_busy
                /\ call'["main"].ret = "st_done"
          /\ (Leaves("st_done") /\ pc'["main"] # "stop") =>
                /\ Records("heartbeat")
                /\ pc'["main"] = "loop"
                /\ pc'["heartbeat"] = "check"
          /\ (pc["main"] # "loop" /\ pc'["main"] = "loop") =>
                hist'.phases = StartupOrder]_vars

\* the startup flash returned False, the set_state of the startup cycle failed
\* too, and the process is at its first tick with the heartbeat worker started
C23_Witness ==
    /\ pc["main"] = "loop"
    /\ tick = TickInit
    /\ hist.phases = StartupOrder
    /\ ~fl.result
    /\ ~tuya.connection_verified
    /\ Alive("heartbeat")

----------------------------------------------------------------------------
(* Properties of the run loop, under SpecRun and under Spec *)

\* the main thread is at the test of the while loop (line 693)
AtLoopTest == pc["main"] = "loop"

\* a tick has begun and is not over
TickUnderWay == InLoop /\ ~AtLoopTest

\* C24: while running is True no failure of the network, the calendar or the
\* device ends the run loop: the loop is left by a shutdown only, and as long
\* as it is not left the main thread is again and again at the test of the
\* loop, and again and again inside a tick: every tick, failed or not, ends and
\* another one begins.
C24_LoopNeverEndsOnFailure ==
    /\ [](InLoop => svc.running)
    /\ [][(InLoop /\ ~InLoop') => (pc'["main"] = "stop" /\ hist'.interrupted)]_vars
    /\ []<>(InLoop => AtLoopTest)
    /\ []<>(InLoop => TickUnderWay)

\* a tick is under way after a tick of an outage, the device being unreachable
C24_Witness ==
    /\ pc["main"] = "busy_soon"
    /\ Alive("flash")
    /\ ~svc.error_stop_event
    /\ ~tuya.connection_verified
    /\ tuya.last_state # None

\* the main thread is inside the connect() of line 706
InReconnect == pc["main"] \in {"connect", "connect_mark"} /\ call["main"].conn = "reconnect"

BothReconnects == <<"connect", "authenticate">>

Ops(calls) == [k \in 1 .. Len(calls) |-> calls[k].op]

\* C25: in a tick whose connectivity probe fails and whose wait_for_network
\* succeeds, connect() and then authenticate() are called whatever the health
\* of the two ports, both before the first query of the tick, and the tick goes
\* on to the queries and to the decision whatever the two calls return.
C25_RecoveryReconnectsBoth ==
    /\ [](/\ (pc["main"] = "busy_soon" /\ tick.recovered) =>
                Ops(tick.reconnects) = BothReconnects
          /\ (pc["main"] = "busy_soon" /\ ~tick.recovered) => tick.reconnects = <<>>
          /\ (pc["main"] = "reconnect_tuya" \/ InReconnect) =>
                (tick.recovered /\ tick.reconnects = <<>> /\ run.queried = <<>>)
          /\ pc["main"] = "reconnect_calendar" =>
                (tick.recovered /\ Ops(tick.reconnects) = <<"connect">>
                   /\ run.queried = <<>>))
    /\ [][/\ (AtLoopTest /\ tick'.recovered) => pc'["main"] = "reconnect_tuya"
          /\ (Leaves("reconnect_tuya") /\ ~hist'.interrupted) =>
                (pc'["main"] = "connect" /\ call'["main"].conn = "reconnect")
          /\ (InReconnect /\ ~InReconnect' /\ ~hist'.interrupted) =>
                pc'["main"] = "reconnect_calendar"
          /\ (Leaves("reconnect_calendar") /\ ~hist'.interrupted) =>
                pc'["main"] = "busy_soon"
          /\ (Leaves("busy_soon") /\ ~hist'.interrupted) =>
                pc'["main"] = "currently_busy"
          /\ (Leaves("currently_busy") /\ ~hist'.interrupted) =>
                pc'["main"] = "decide"]_vars

\* after a recovery both reconnecting calls have failed and the tick is at its
\* first query
C25_Witness ==
    /\ pc["main"] = "busy_soon"
    /\ tick.recovered
    /\ tick.reconnects = <<[op |-> "connect", ok |-> FALSE],
                           [op |-> "authenticate", ok |-> FALSE]>>

----------------------------------------------------------------------------
(* Properties of the heartbeat worker, under SpecBeat *)

\* the heartbeat worker takes this step
HeartbeatMoves == pc'["heartbeat"] # pc["heartbeat"] /\ pc["heartbeat"] # "none"

\* the worker's cancel signal is raised and the worker has not terminated
HeartbeatCancelling == svc.heartbeat_stop_event /\ Alive("heartbeat")

----------------------------------------------------------------------------
(* Properties of the switch against the tracked state, under Spec *)

\* the tick is over, its queries and its write, if any, succeeded
TickSucceeded == TickOver /\ ~tick.query_failed /\ ~tick.write_failed

\* an error-flash worker was started and has terminated
ErrorFlashStopped == svc.error_flash_thread /\ pc["flash"] = "dead"

\* C27: at the end of every tick in which all calls succeeded and the error
\* flash has been stopped, the switch is in the tracked is_busy state: after an
\* error-flash episode the light is back in the calendar-derived state. Read
\* here for the ticks that wrote the tracked state to the device themselves.
C27_SwitchMatchesTrackedAfterFlash ==
    (TickSucceeded /\ tick.writes = 1 /\ ErrorFlashStopped)
        => switch = svc.is_busy

\* the set_state of the startup decision has returned False
StartupWriteFailed == pc["main"] = "st_done" /\ ~call["main"].result

\* the set_state of the tick's decision has returned False
LoopWriteFailed == TickOver /\ tick.writes = 1 /\ tick.write_failed

\* C28: when the set_state of a decision returns False, the tracked is_busy is
\* not advanced to the value the device did not accept: it keeps the value it
\* had before the decision (False before the startup decision), so that a later
\* tick with the same desired state issues the write again.
C28_FailedWriteKeepsTracked ==
    /\ StartupWriteFailed => ~svc.is_busy
    /\ LoopWriteFailed => svc.is_busy = tick.busy_before

\* the step in which start_error_flash returns to run(): from the outage branch
\* of the loop (line 700) or after a failed startup (line 672)
StartErrorFlashReturns ==
    /\ hist' = hist
    /\ \/ pc["main"] = "loop" /\ pc'["main"] = "outage_sleep"
       \/ pc["main"] = "startup_failed" /\ pc'["main"] = "stop"

\* C29: when start_error_flash returns, an error-flash worker is alive and its
\* cancel signal is cleared, also when the call follows a stop_error_flash
\* whose join timed out with the old worker inside set_state.
C29_StartLeavesFlashRunning ==
    [][StartErrorFlashReturns => (Alive("flash") /\ ~svc.error_stop_event)']_vars

\* stop() has returned and its set_state(False), issued because the device
\* health was verified, returned True
StoppedWithLightOff ==
    /\ pc["main"] = "exited"
    /\ call["main"].ret = "exited"
    /\ call["main"].result = TRUE

\* C30: once stop() has returned with its set_state(False) accepted and the
\* workers have terminated, the switch is OFF: no write of the error-flash
\* worker reaches the device after the final OFF write.
C30_OffAfterStop ==
    (StoppedWithLightOff /\ ~Alive("flash") /\ ~Alive("heartbeat")) => ~switch

----------------------------------------------------------------------------
(* Properties of the worker threads, under SpecWorkers *)

Workers == {"flash", "heartbeat"}

\* the threads of the kind of t that are alive
AliveWorkers(t) == hist.untracked[t] + (IF Alive(t) THEN 1 ELSE 0)

\* C31: at most one error-flash worker and at most one heartbeat worker are
\* alive at any time, whatever the sequence of start and stop calls.
C31_AtMostOneWorkerOfAKind == \A t \in Workers : AliveWorkers(t) <= 1

\* stop_error_flash has returned on its timeout: the cancelled worker is still
\* inside set_state while the caller can start and stop again, the heartbeat
\* worker running
C31_Witness ==
    /\ pc["main"] = "caller"
    /\ svc.error_flash_thread /\ svc.error_stop_event /\ InSetState("flash")
    /\ svc.heartbeat_thread /\ Alive("heartbeat") /\ ~svc.heartbeat_stop_event
    /\ tuya.last_state # None

----------------------------------------------------------------------------
(* Properties of termination, under SpecStop *)

\* stop() has been called
StopCalled == pc["main"] = "stop"

WorkersTerminated == \A t \in Workers : ~Alive(t)

\* C33: after stop() is called, with every device call returning, the
\* error-flash worker and the heartbeat worker both terminate, and none is
\* alive from then on.
C33_WorkersTerminateAfterStop == StopCalled ~> []WorkersTerminated

\* stop() has returned and both workers, cancelled by it, have terminated
C33_Witness ==
    /\ pc["main"] = "exited"
    /\ svc.error_stop_event /\ pc["flash"] = "dead"
    /\ svc.heartbeat_stop_event /\ pc["heartbeat"] = "dead"

----------------------------------------------------------------------------
(* Properties of the tracked event name, under Spec *)

\* what a failed query returns in place of an event title
FailureMessages == {Some("Authentication failed"), Some("Error")}

\* C32: whenever the desired state of a cycle is busy, the tracked event name
\* is the title returned by a query that reported busy, the one of
\* is_busy_soon when both did; it is never the message of a failed query.
C32_EventNameIsBusyTitle ==
    [][(DecisionStep /\ run'.should_be_on) =>
          /\ run'.current_event_name \notin FailureMessages
          /\ run'.current_event_name =
                 (IF run.busy_soon THEN run.event_soon ELSE run.current_event)]_vars

----------------------------------------------------------------------------
(* Properties of the operations' boundaries, under Spec *)

\* C20: whatever the underlying device and calendar calls do, connect,
\* ensure_connection, set_state, flash, flash_error, authenticate, is_busy_soon
\* and is_currently_busy return a definite value: no exception reaches their
\* caller.
C20_NoExceptionEscapes ==
    /\ \A t \in DOMAIN pc : pc[t] # "raised"
    /\ \A t \in Threads : call[t].result \in BOOLEAN
    /\ fl.result \in BOOLEAN
    /\ run.busy_soon \in BOOLEAN /\ run.currently_busy \in BOOLEAN

\* a tick in which both queries failed, the second one in its request, and in
\* which set_state returned False after a failed reconnect: the loop goes on
C20_Witness ==
    /\ TickDecided
    /\ tick.query_failed
    /\ hist.last_desired = Some(FALSE)
    /\ tick.writes = 1
    /\ SetStateReturned("main")
    /\ call["main"].ensured = "failed"

====
